---- MODULE Spec2Model ----
(***************************************************************************)
(* Model of the agentic workflow orchestrator: Orchestrator.run            *)
(* (src/app/orchestrator.py) with the Budget (src/app/domain/budget.py),   *)
(* the Router (src/app/nodes/router.py) and the Debate fan-out             *)
(* (src/app/nodes/debate.py).                                              *)
(*                                                                         *)
(* Currency amounts and latencies are integers (units of cost / time).     *)
(* A number that need not be an integer is a rational                      *)
(* <<numerator, denominator>>; the running means of an ArmStat are floats  *)
(* of Precision significand bits. Optional values are <<>> (None) or <<x>>.*)
(***************************************************************************)
EXTENDS Integers, Sequences, FiniteSets, TLC

\* ---------------------------------------------------------------- bounds
\* worker invocations a plan may cause at most, over all its steps
MaxCalls == 3
\* Budget and ArmStat on their own: the largest amount, and the calls made
\* on one object
MaxAmount == 3
MaxOps == 3
\* significand bits of a float, standing for the 53 of a Python float
Precision == 6

None == <<>>
Some(x) == <<x>>

\* ------------------------------------------------------------- rationals
RECURSIVE GCD(_, _)
GCD(a, b) ==
    IF b = 0 THEN a ELSE GCD(b, a % b)

Abs(x) ==
    IF x < 0 THEN 0 - x ELSE x

Norm(n, d) ==
    LET g == GCD(Abs(n), Abs(d))
        s == IF d < 0 THEN 0 - 1 ELSE 1
    IN  IF n = 0 THEN <<0, 1>> ELSE <<(s * n) \div g, (s * d) \div g>>

RAdd(p, q) ==
    Norm(p[1] * q[2] + q[1] * p[2], p[2] * q[2])

RSub(p, q) ==
    Norm(p[1] * q[2] - q[1] * p[2], p[2] * q[2])

RMul(p, q) ==
    Norm(p[1] * q[1], p[2] * q[2])

RDivInt(p, n) ==
    Norm(p[1], p[2] * n)

RLess(p, q) ==
    p[1] * q[2] < q[1] * p[2]

RInt(n) ==
    <<n, 1>>

\* ---------------------------------------------------------------- floats
\* A float is the rational it stands for. An operation on floats returns the
\* float nearest to the exact result, ties to the even significand; the
\* exponent is not bounded (no overflow, no underflow).
RECURSIVE Pow2(_)
Pow2(k) ==
    IF k = 0 THEN 1 ELSE 2 * Pow2(k - 1)

\* the significands are the integers below 2^Precision
Significands ==
    Pow2(Precision)

\* <<a, d, e>> with 2^(Precision-1) <= a/d < 2^Precision, (a/d) * 2^e the
\* positive value given
RECURSIVE Scale(_, _, _)
Scale(a, d, e) ==
    IF a >= d * Significands THEN Scale(a, 2 * d, e + 1)
    ELSE IF 2 * a < d * Significands THEN Scale(2 * a, d, e - 1)
    ELSE <<a, d, e>>

RoundHalfEven(a, d) ==
    LET f == a \div d
        r == a % d
    IN  IF 2 * r > d \/ (2 * r = d /\ f % 2 = 1) THEN f + 1 ELSE f

Fl(q) ==
    IF q[2] = 1 /\ Abs(q[1]) < Significands THEN q
    ELSE LET s == Scale(Abs(q[1]), q[2], 0)
             m == RoundHalfEven(s[1], s[2])
             sg == IF q[1] < 0 THEN 0 - 1 ELSE 1
         IN  IF s[3] >= 0 THEN Norm(sg * m * Pow2(s[3]), 1)
             ELSE Norm(sg * m, Pow2(0 - s[3]))

\* --------------------------------------------------------------- workers
\* The worker set wired in main.py, in dict insertion order:
\* name, tier and declared skills of each ModelSpec.
WorkerModels ==
    << [name |-> "gpt-4o", tier |-> 1, skills |-> {"math", "code"}],
       [name |-> "gpt-4o-mini", tier |-> 0,
        skills |-> {"reason", "analyze", "summarize"}] >>

\* Router.adapters, Orchestrator.adapters: the worker set given at
\* construction, as the list of the dict's values
VARIABLE adapters

AdapterNames ==
    {adapters[i].name : i \in 1..Len(adapters)}

AdapterOf(n) ==
    CHOOSE a \in {adapters[i] : i \in 1..Len(adapters)} : a.name = n

\* RouterCfg(): epsilon 0.05, alpha_cost 0.0
RouterCfg0 ==
    [epsilon |-> <<1, 20>>, alpha_cost |-> <<0, 1>>]

\* Router.cfg
VARIABLE cfg

Epsilon == cfg.epsilon
AlphaCost == cfg.alpha_cost

\* values rng.random() may return, all in [0, 1)
DrawSeq == << <<0, 1>>, <<1, 2>>, <<3, 4>> >>

Draws == {DrawSeq[i] : i \in 1..Len(DrawSeq)}

\* ------------------------------------------------------------ candidates
\* what a worker call may report: its cost and its latency
Results ==
    {[cost_usd |-> 1, latency_s |-> 1], [cost_usd |-> 2, latency_s |-> 2]}

\* budget_usd and latency_s a run may be started with
Budgets == {0, 1, 3}
Deadlines == {None, Some(1)}

Candidate(model, text, latency_s, cost_usd) ==
    [model |-> model, text |-> text, latency_s |-> latency_s, cost_usd |-> cost_usd]

NoCandidate == Candidate("", <<>>, 0, 0)

RECURSIVE SumCost(_)
SumCost(cs) ==
    IF cs = <<>> THEN 0 ELSE Head(cs).cost_usd + SumCost(Tail(cs))

\* max((c.latency_s for c in cs), default=0.0)
MaxLatency(cs) ==
    IF cs = <<>> THEN 0
    ELSE CHOOSE m \in {cs[i].latency_s : i \in 1..Len(cs)} :
            \A i \in 1..Len(cs) : cs[i].latency_s <= m

\* faulty variant of Cheapest: keeps the first candidate, whatever its cost
CheapestIsFirst(cs) ==
    cs[1]

\* min(cs, key=lambda c: c.cost_usd): the first candidate of minimal cost
Cheapest(cs) ==
    LET i == CHOOSE j \in 1..Len(cs) :
                /\ \A l \in 1..Len(cs) : cs[j].cost_usd <= cs[l].cost_usd
                /\ \A l \in 1..(j - 1) : cs[l].cost_usd > cs[j].cost_usd
    IN  cs[i]

\* ---------------------------------------------------------------- budget
\* faulty variant of Allow: refuses a cost equal to what is left
AllowStrict(usd, deadline, cost, latency) ==
    IF usd <= cost THEN FALSE
    ELSE IF deadline # None /\ deadline[1] < latency THEN FALSE
    ELSE TRUE

Allow(usd, deadline, cost, latency) ==
    IF usd < cost THEN FALSE
    ELSE IF deadline # None /\ deadline[1] < latency THEN FALSE
    ELSE TRUE

\* faulty variants of Charge: one with a floor at zero, one that adds
ChargeFloored(usd, cost) ==
    IF usd - cost < 0 THEN 0 ELSE usd - cost

ChargeAdds(usd, cost) ==
    usd + cost

Charge(usd, cost) ==
    usd - cost

\* ---------------------------------------------------------------- router
ArmStat0 == [pulls |-> 0, winrate |-> <<0, 1>>, cost |-> <<0, 1>>]

\* faulty variant of ArmUpdate: divides by the pulls before this one
ArmUpdateStalePulls(s, reward, cost) ==
    LET p == s.pulls + 1
        d == IF s.pulls = 0 THEN 1 ELSE s.pulls
        towards(m, x) == Fl(RAdd(m, Fl(RDivInt(Fl(RSub(RInt(x), m)), d))))
    IN  [pulls |-> p,
         winrate |-> towards(s.winrate, reward),
         cost |-> towards(s.cost, cost)]

\* ArmStat.update: m += (x - m) / pulls, each of the three operations
\* rounded; pulls is an int
ArmUpdate(s, reward, cost) ==
    LET p == s.pulls + 1
        towards(m, x) == Fl(RAdd(m, Fl(RDivInt(Fl(RSub(RInt(x), m)), p))))
    IN  [pulls |-> p,
         winrate |-> towards(s.winrate, reward),
         cost |-> towards(s.cost, cost)]

\* faulty variant of Score: a worker never pulled is scored by its means
ScoreWarmOnly(s, u, r) ==
    IF RLess(u, Epsilon) THEN r
    ELSE Fl(RSub(s.winrate, Fl(RMul(AlphaCost, s.cost))))

\* Router._score with the two generator draws made explicit:
\* u is the exploration draw, r the draw used for a random score.
Score(s, u, r) ==
    IF RLess(u, Epsilon) \/ s.pulls = 0 THEN r
    ELSE Fl(RSub(s.winrate, Fl(RMul(AlphaCost, s.cost))))

\* faulty variant of Eligible: asks for a tier above the hint
EligibleAboveHint(skill, tier_hint) ==
    SelectSeq(adapters, LAMBDA a :
        /\ (tier_hint = None \/ a.tier > tier_hint[1])
        /\ (skill = "" \/ skill \in a.skills \/ a.skills = {}))

Eligible(skill, tier_hint) ==
    SelectSeq(adapters, LAMBDA a :
        /\ (tier_hint = None \/ a.tier >= tier_hint[1])
        /\ (skill = "" \/ skill \in a.skills \/ a.skills = {}))

PickPool(skill, tier_hint) ==
    IF Eligible(skill, tier_hint) = <<>> THEN adapters
    ELSE Eligible(skill, tier_hint)

\* sorted(cand, key=..., reverse=True): stable, descending by score
SortDesc(xs, sc) ==
    LET n == Len(xs)
        rank(i) == Cardinality({j \in 1..n : RLess(sc[i], sc[j])})
                   + Cardinality({j \in 1..(i - 1) : sc[j] = sc[i]})
    IN  [p \in 1..n |-> xs[CHOOSE i \in 1..n : rank(i) + 1 = p]]

Max2(a, b) ==
    IF a >= b THEN a ELSE b

\* faulty variant of TakeK: scored[:k], so nothing for k = 0
TakeKLiteral(xs, k) ==
    SubSeq(xs, 1, IF k < Len(xs) THEN k ELSE Len(xs))

TakeK(xs, k) ==
    SubSeq(xs, 1, IF Max2(1, k) < Len(xs) THEN Max2(1, k) ELSE Len(xs))

NamesOf(xs) ==
    [i \in 1..Len(xs) |-> xs[i].name]

\* the lists pick_k can return, over all draws of the generator
ScoresOf(s) ==
    {Score(s, u, r) : u \in Draws, r \in Draws}

RECURSIVE ScoreLists(_, _)
ScoreLists(st, pool) ==
    IF pool = <<>> THEN {<<>>}
    ELSE {<<x>> \o rest : x \in ScoresOf(st[Head(pool).name]),
                          rest \in ScoreLists(st, Tail(pool))}

PickK(st, skill, k, tier_hint) ==
    LET pool == PickPool(skill, tier_hint)
    IN  {NamesOf(TakeK(SortDesc(pool, sc), k)) : sc \in ScoreLists(st, pool)}

\* ----------------------------------------------------------------- state
VARIABLES
    pc,           \* position of Orchestrator.run
    plan,         \* the Plan: steps, hard_budget_usd, hard_latency_s
    si,           \* index of the current step (0-based, as enumerate)
    usd_left,     \* Budget.usd_left
    deadline_s,   \* Budget.deadline_s
    total_cost, total_lat,
    step_traces,
    names, cand, step_cost, step_lat, j_idx, chosen, ok, verified,
    names2, cand2,
    improve,      \* whether j_meta / v_meta carry the 'improve' key
    stats,        \* Router.stats
    deb_names,    \* the names argument of the running Debate.run
    inflight,     \* positions of deb_names whose one(name) has not returned
    finished,     \* <<position, Candidate>> of the returned ones, in completion order
    allowed,      \* value returned by the last Budget.allow
    q_cost, q_lat,\* arguments of the last Budget.allow
    charged,      \* argument of the last Budget.charge
    j_idx2,       \* index returned by the improvement round's judge.pick
    checked,      \* text given to the last verifier.check, and its answer
    calls,        \* calls made by the current step, per callee
    run_trace,    \* the RunTrace returned, None before
    failure,      \* the awaited call that raised, "" while none has
    esc_spent,    \* <<cost, latency>> added by the improvement rounds so far
    picked,       \* arguments of the last Router.pick_k made directly
    fed,          \* <<name, reward, cost>> of the Router.update calls made directly
    rng,          \* Router.rng as <<seed, values drawn>>; None where the
                  \* generator's state is left open
    hist,         \* the calls made on a Router of known seed, with what each
                  \* returned and left
    twin          \* a second Router of the same worker set, cfg and seed

vars ==
    <<pc, plan, si, usd_left, deadline_s, total_cost, total_lat, step_traces,
      names, cand, step_cost, step_lat, j_idx, chosen, ok, verified, names2,
      cand2, improve, stats, deb_names, inflight, finished, allowed, q_cost,
      q_lat, charged, j_idx2, checked, calls, run_trace, adapters, failure,
      esc_spent, picked, fed, cfg, rng, hist, twin>>

budgetVars == <<usd_left, deadline_s>>
totalVars == <<total_cost, total_lat>>
stepVars == <<names, cand, step_cost, step_lat, j_idx, chosen, ok, verified>>
escVars == <<names2, cand2, improve>>
debVars == <<deb_names, inflight, finished>>
queryVars == <<allowed, q_cost, q_lat, charged, j_idx2, checked>>
directVars == <<adapters, cfg, picked, fed, rng, hist, twin>>

Calls0 ==
    [pick_k |-> 0, run |-> 0, allow |-> 0, charge |-> 0, judge |-> 0,
     verify |-> 0, update |-> 0, record |-> 0]

Called(f) ==
    [calls EXCEPT ![f] = @ + 1]

\* ------------------------------------------------------------------ plans
\* <<skill, tier_hint>> and <<k_models, max_rounds>> of the steps planned
Routings == {<<"", None>>, <<"math", Some(1)>>}
Efforts == {<<1, 0>>, <<1, 1>>, <<2, 2>>}

PlanStep ==
    {[skill |-> r[1], k_models |-> e[1], tier_hint |-> r[2], max_rounds |-> e[2]] :
        r \in Routings, e \in Efforts}

\* worker invocations a step may cause: its fan-out and one escalation call
Weight(st) ==
    Max2(1, st.k_models) + (IF st.max_rounds > 0 THEN 1 ELSE 0)

RECURSIVE PlansOf(_)
PlansOf(w) ==
    {<<>>} \cup UNION {{<<st>> \o p : p \in PlansOf(w - Weight(st))} :
                        st \in {x \in PlanStep : Weight(x) <= w}}

Plans ==
    PlansOf(MaxCalls)

NoPlan ==
    [steps |-> <<>>, hard_budget_usd |-> 0, hard_latency_s |-> None]

Step == plan.steps[si + 1]

\* ------------------------------------------------------------------- init
\* no run started, no call made
Idle ==
    /\ plan = NoPlan
    /\ si = 0
    /\ total_cost = 0
    /\ total_lat = 0
    /\ step_traces = <<>>
    /\ names = <<>>
    /\ cand = <<>>
    /\ step_cost = 0
    /\ step_lat = 0
    /\ j_idx = 0
    /\ chosen = NoCandidate
    /\ ok = FALSE
    /\ verified = FALSE
    /\ names2 = <<>>
    /\ cand2 = <<>>
    /\ improve = FALSE
    /\ deb_names = <<>>
    /\ inflight = {}
    /\ finished = <<>>
    /\ allowed = TRUE
    /\ q_cost = 0
    /\ q_lat = 0
    /\ charged = 0
    /\ j_idx2 = 0
    /\ checked = None
    /\ calls = Calls0
    /\ run_trace = None
    /\ failure = ""
    /\ esc_spent = <<0, 0>>
    /\ picked = None
    /\ fed = <<>>

\* no Router of a given seed, no second Router
Unseeded ==
    /\ rng = None
    /\ hist = <<>>
    /\ twin = None

\* main.py: the workers wired, Router(worker_models) with its fresh ArmStats
Blank ==
    /\ adapters = WorkerModels
    /\ cfg = RouterCfg0
    /\ stats = [n \in AdapterNames |-> ArmStat0]
    /\ Idle
    /\ Unseeded

\* the Orchestrator as constructed, run not yet called
Init ==
    /\ pc = "plan"
    /\ usd_left = 0
    /\ deadline_s = None
    /\ Blank

\* ------------------------------------------------------- Orchestrator.run
\* make_plan, Budget(...), the accumulators
MakePlan ==
    /\ pc = "plan"
    /\ \E p \in Plans, b \in Budgets, l \in Deadlines :
        /\ plan' = [steps |-> p, hard_budget_usd |-> b, hard_latency_s |-> l]
    /\ usd_left' = plan'.hard_budget_usd
    /\ deadline_s' = plan'.hard_latency_s
    /\ pc' = IF plan'.steps = <<>> THEN "finalize" ELSE "route"
    /\ total_cost' = 0
    /\ total_lat' = 0
    /\ step_traces' = <<>>
    /\ UNCHANGED <<directVars, failure, esc_spent,
                   si, stepVars, escVars, stats, debVars, queryVars, calls,
                   run_trace>>

MakePlanFail ==
    /\ pc = "plan"
    /\ pc' = "error"
    /\ failure' = "planner"
    /\ UNCHANGED <<directVars, esc_spent,
                   plan, si, budgetVars, totalVars, step_traces, stepVars,
                   escVars, stats, debVars, queryVars, calls, run_trace>>

\* ROUTE: names = router.pick_k(step.skill, step.k_models, step.tier_hint)
Route ==
    /\ pc = "route"
    /\ names' \in PickK(stats, Step.skill, Step.k_models, Step.tier_hint)
    /\ calls' = [Calls0 EXCEPT !.pick_k = 1]
    /\ pc' = "execute"
    /\ UNCHANGED <<directVars, failure, esc_spent,
                   plan, si, budgetVars, totalVars, step_traces, cand,
                   step_cost, step_lat, j_idx, chosen, ok, verified, escVars,
                   stats, debVars, queryVars, run_trace>>

\* Debate.run: asyncio.gather(*[one(n) for n in names]) starts every one(n)
Launch(at, ns, to) ==
    /\ pc = at
    /\ deb_names' = ns
    /\ inflight' = 1..Len(ns)
    /\ finished' = <<>>
    /\ calls' = Called("run")
    /\ pc' = to
    /\ UNCHANGED <<directVars, failure, esc_spent,
                   plan, si, budgetVars, totalVars, step_traces, stepVars,
                   escVars, stats, queryVars, run_trace>>

Execute ==
    Launch("execute", names, "await")

\* the text of a call: every call of the run writes a text of its own
Text(i) ==
    <<si, IF pc = "await" THEN 1 ELSE 2, i>>

\* one(name) returns: Candidate(name, res.text, res.latency_s, res.cost_usd)
WorkerDone ==
    /\ pc \in {"await", "esc_await"}
    /\ \E i \in inflight, res \in Results :
        /\ inflight' = inflight \ {i}
        /\ finished' = Append(finished,
               <<i, Candidate(deb_names[i], Text(i), res.latency_s, res.cost_usd)>>)
    /\ UNCHANGED <<directVars, failure, esc_spent,
                   pc, plan, si, budgetVars, totalVars, step_traces, stepVars,
                   escVars, stats, deb_names, queryVars, calls, run_trace>>

\* faulty variant of WorkerFail: the failed call is dropped from the
\* fan-out, which goes on with the others (gather with return_exceptions)
WorkerFailIsolated ==
    /\ pc \in {"await", "esc_await"}
    /\ \E i \in inflight : inflight' = inflight \ {i}
    /\ failure' = "worker"
    /\ UNCHANGED <<directVars, esc_spent, pc,
                   plan, si, budgetVars, totalVars, step_traces, stepVars,
                   escVars, stats, deb_names, finished, queryVars, calls,
                   run_trace>>

\* acomplete raises: gather re-raises to the caller of Debate.run at once,
\* and nothing between there and the caller of run catches it
WorkerFail ==
    /\ pc \in {"await", "esc_await"}
    /\ \E i \in inflight : inflight' = inflight \ {i}
    /\ pc' = "error"
    /\ failure' = "worker"
    /\ UNCHANGED <<directVars, esc_spent,
                   plan, si, budgetVars, totalVars, step_traces, stepVars,
                   escVars, stats, deb_names, finished, queryVars, calls,
                   run_trace>>

\* faulty variant of Gathered: the results in the order they came in
GatheredAsCompleted ==
    [k \in 1..Len(finished) |-> finished[k][2]]

\* the results that have come in, in the order of the awaitables given to
\* asyncio.gather: the list it returns once every one of them has
ResultAt(i) ==
    (CHOOSE f \in {finished[j] : j \in 1..Len(finished)} : f[1] = i)[2]

Gathered ==
    LET pos == SelectSeq([i \in 1..Len(deb_names) |-> i],
                         LAMBDA i : \E j \in 1..Len(finished) : finished[j][1] = i)
    IN  [k \in 1..Len(pos) |-> ResultAt(pos[k])]

\* faulty variant of GatherReady: resumes on the first result
GatherReadyOnFirst ==
    finished # <<>>

\* await asyncio.gather(...): resumes when no awaitable is pending
GatherReady ==
    inflight = {}

Gather ==
    /\ pc = "await"
    /\ GatherReady
    /\ cand' = Gathered
    /\ pc' = "admit"
    /\ UNCHANGED <<directVars, failure, esc_spent,
                   plan, si, budgetVars, totalVars, step_traces, names,
                   step_cost, step_lat, j_idx, chosen, ok, verified, escVars,
                   stats, debVars, queryVars, calls, run_trace>>

\* faulty variant of Admit: the run's totals take the whole fan-out, trimmed
\* or not
AdmitTotalsFanOut ==
    /\ pc = "admit"
    /\ LET cost0 == SumCost(cand)
           lat0 == MaxLatency(cand)
           a == Allow(usd_left, deadline_s, cost0, lat0)
           kept == IF a THEN cand ELSE <<Cheapest(cand)>>
           cost1 == IF a THEN cost0 ELSE Cheapest(cand).cost_usd
           lat1 == IF a THEN lat0 ELSE Cheapest(cand).latency_s
       IN  /\ allowed' = a
           /\ q_cost' = cost0
           /\ q_lat' = lat0
           /\ cand' = kept
           /\ step_cost' = cost1
           /\ step_lat' = lat1
           /\ total_cost' = total_cost + cost0
           /\ total_lat' = total_lat + lat0
           /\ usd_left' = Charge(usd_left, cost1)
           /\ charged' = cost1
    /\ calls' = [calls EXCEPT !.allow = @ + 1, !.charge = @ + 1]
    /\ pc' = "judge"
    /\ UNCHANGED <<directVars, failure, esc_spent,
                   plan, si, deadline_s, step_traces, names, j_idx, chosen,
                   ok, verified, escVars, stats, debVars, j_idx2, checked,
                   run_trace>>

\* faulty variant of Admit: the latency admitted is taken off the deadline
AdmitSpendsDeadline ==
    /\ pc = "admit"
    /\ LET cost0 == SumCost(cand)
           lat0 == MaxLatency(cand)
           a == Allow(usd_left, deadline_s, cost0, lat0)
           kept == IF a THEN cand ELSE <<Cheapest(cand)>>
           cost1 == IF a THEN cost0 ELSE Cheapest(cand).cost_usd
           lat1 == IF a THEN lat0 ELSE Cheapest(cand).latency_s
       IN  /\ allowed' = a
           /\ q_cost' = cost0
           /\ q_lat' = lat0
           /\ cand' = kept
           /\ step_cost' = cost1
           /\ step_lat' = lat1
           /\ total_cost' = total_cost + cost1
           /\ total_lat' = total_lat + lat1
           /\ usd_left' = Charge(usd_left, cost1)
           /\ charged' = cost1
           /\ deadline_s' = IF deadline_s = None THEN None
                            ELSE Some(deadline_s[1] - lat1)
    /\ calls' = [calls EXCEPT !.allow = @ + 1, !.charge = @ + 1]
    /\ pc' = "judge"
    /\ UNCHANGED <<directVars, failure, esc_spent,
                   plan, si, step_traces, names, j_idx, chosen, ok, verified,
                   escVars, stats, debVars, j_idx2, checked, run_trace>>

\* ADMIT: lines 84-95
Admit ==
    /\ pc = "admit"
    /\ LET cost0 == SumCost(cand)
           lat0 == MaxLatency(cand)
           a == Allow(usd_left, deadline_s, cost0, lat0)
           kept == IF a THEN cand ELSE <<Cheapest(cand)>>
           cost1 == IF a THEN cost0 ELSE Cheapest(cand).cost_usd
           lat1 == IF a THEN lat0 ELSE Cheapest(cand).latency_s
       IN  /\ allowed' = a
           /\ q_cost' = cost0
           /\ q_lat' = lat0
           /\ cand' = kept
           /\ step_cost' = cost1
           /\ step_lat' = lat1
           /\ total_cost' = total_cost + cost1
           /\ total_lat' = total_lat + lat1
           /\ usd_left' = Charge(usd_left, cost1)
           /\ charged' = cost1
    /\ calls' = [calls EXCEPT !.allow = @ + 1, !.charge = @ + 1]
    /\ pc' = "judge"
    /\ UNCHANGED <<directVars, failure, esc_spent,
                   plan, si, deadline_s, step_traces, names, j_idx, chosen,
                   ok, verified, escVars, stats, debVars, j_idx2, checked,
                   run_trace>>

\* faulty variant of Judge: judges the fan-out's results, not those admitted
JudgeUntrimmed ==
    /\ pc = "judge"
    /\ IF Len(Gathered) = 1
       THEN /\ j_idx' = 0
            /\ calls' = calls
       ELSE /\ j_idx' \in 0..(Len(Gathered) - 1)
            /\ calls' = Called("judge")
    /\ chosen' = Gathered[j_idx' + 1]
    /\ pc' = "verify"
    /\ UNCHANGED <<directVars, failure, esc_spent,
                   plan, si, budgetVars, totalVars, step_traces, names, cand,
                   step_cost, step_lat, ok, verified, escVars, stats, debVars,
                   queryVars, run_trace>>

\* faulty variant of Judge: asks the judge also about a single candidate
JudgeAlwaysAsks ==
    /\ pc = "judge"
    /\ j_idx' \in 0..(Len(cand) - 1)
    /\ calls' = Called("judge")
    /\ chosen' = cand[j_idx' + 1]
    /\ pc' = "verify"
    /\ UNCHANGED <<directVars, failure, esc_spent,
                   plan, si, budgetVars, totalVars, step_traces, names, cand,
                   step_cost, step_lat, ok, verified, escVars, stats, debVars,
                   queryVars, run_trace>>

\* JUDGE: lines 99-104
Judge ==
    /\ pc = "judge"
    /\ IF Len(cand) = 1
       THEN /\ j_idx' = 0
            /\ calls' = calls
       ELSE /\ j_idx' \in 0..(Len(cand) - 1)
            /\ calls' = Called("judge")
    /\ chosen' = cand[j_idx' + 1]
    /\ pc' = "verify"
    /\ UNCHANGED <<directVars, failure, esc_spent,
                   plan, si, budgetVars, totalVars, step_traces, names, cand,
                   step_cost, step_lat, ok, verified, escVars, stats, debVars,
                   queryVars, run_trace>>

\* judge.pick raises, or returns an index cand[j_idx] rejects
JudgeFail ==
    /\ pc = "judge"
    /\ Len(cand) # 1
    /\ calls' = Called("judge")
    /\ pc' = "error"
    /\ failure' = "judge"
    /\ UNCHANGED <<directVars, esc_spent,
                   plan, si, budgetVars, totalVars, step_traces, stepVars,
                   escVars, stats, debVars, queryVars, run_trace>>

\* faulty variant of Escalate: does not look at the budget
EscalateIgnoringBudget(v) ==
    (~v) /\ plan.steps[si + 1].max_rounds > 0

\* faulty variant of Escalate: improves whatever the verifier answered
EscalateOnAccept(v) ==
    plan.steps[si + 1].max_rounds > 0 /\ usd_left > 0

\* line 114: the test that opens the improvement round, v the verifier's answer
Escalate(v) ==
    (~v) /\ Step.max_rounds > 0 /\ usd_left > 0

\* VERIFY and the escalation test: lines 109-114
Verify ==
    /\ pc = "verify"
    /\ \E v \in BOOLEAN :
        /\ ok' = v
        /\ verified' = v
        /\ checked' = Some([text |-> chosen.text, ok |-> v])
        /\ pc' = IF Escalate(v) THEN "esc_route" ELSE "update"
    /\ calls' = Called("verify")
    /\ UNCHANGED <<directVars, failure, esc_spent,
                   plan, si, budgetVars, totalVars, step_traces, names, cand,
                   step_cost, step_lat, j_idx, chosen, escVars, stats, debVars,
                   allowed, q_cost, q_lat, charged, j_idx2, run_trace>>

VerifyFail ==
    /\ pc \in {"verify", "esc_verify"}
    /\ calls' = Called("verify")
    /\ pc' = "error"
    /\ failure' = "verifier"
    /\ UNCHANGED <<directVars, esc_spent,
                   plan, si, budgetVars, totalVars, step_traces, stepVars,
                   escVars, stats, debVars, queryVars, run_trace>>

\* faulty variant of NextTier: the hint is the first round's own top tier
NextTierIsTop ==
    CHOOSE m \in {AdapterOf(names[i]).tier : i \in 1..Len(names)} :
        \A i \in 1..Len(names) : AdapterOf(names[i]).tier <= m

\* lines 117-120
NextTier ==
    (CHOOSE m \in {AdapterOf(names[i]).tier : i \in 1..Len(names)} :
        \A i \in 1..Len(names) : AdapterOf(names[i]).tier <= m) + 1

EscRoute ==
    /\ pc = "esc_route"
    /\ names2' \in PickK(stats, Step.skill, 1, Some(NextTier))
    /\ calls' = Called("pick_k")
    /\ pc' = "esc_execute"
    /\ UNCHANGED <<directVars, failure, esc_spent,
                   plan, si, budgetVars, totalVars, step_traces, stepVars,
                   cand2, improve, stats, debVars, queryVars, run_trace>>

\* lines 122-130
EscExecute ==
    Launch("esc_execute", names2, "esc_await")

EscGather ==
    /\ pc = "esc_await"
    /\ GatherReady
    /\ cand2' = Gathered
    /\ pc' = "esc_charge"
    /\ UNCHANGED <<directVars, failure, esc_spent,
                   plan, si, budgetVars, totalVars, step_traces, stepVars,
                   names2, improve, stats, debVars, queryVars, calls, run_trace>>

\* faulty variant of EscCharge: the round is charged but not added to the
\* run's totals
EscChargeOnly ==
    /\ pc = "esc_charge"
    /\ usd_left' = Charge(usd_left, SumCost(cand2))
    /\ charged' = SumCost(cand2)
    /\ esc_spent' = <<esc_spent[1] + SumCost(cand2),
                      esc_spent[2] + MaxLatency(cand2)>>
    /\ calls' = Called("charge")
    /\ pc' = "esc_judge"
    /\ UNCHANGED <<directVars, failure, totalVars,
                   plan, si, deadline_s, step_traces, stepVars, escVars, stats,
                   debVars, allowed, q_cost, q_lat, j_idx2, checked,
                   run_trace>>

\* lines 132-134
EscCharge ==
    /\ pc = "esc_charge"
    /\ total_cost' = total_cost + SumCost(cand2)
    /\ total_lat' = total_lat + MaxLatency(cand2)
    /\ usd_left' = Charge(usd_left, SumCost(cand2))
    /\ charged' = SumCost(cand2)
    /\ esc_spent' = <<esc_spent[1] + SumCost(cand2),
                      esc_spent[2] + MaxLatency(cand2)>>
    /\ calls' = Called("charge")
    /\ pc' = "esc_judge"
    /\ UNCHANGED <<directVars, failure,
                   plan, si, deadline_s, step_traces, stepVars, escVars, stats,
                   debVars, allowed, q_cost, q_lat, j_idx2, checked,
                   run_trace>>

\* faulty variant of AllCand: the new candidates first
AllCandNewFirst ==
    cand2 \o <<chosen>>

\* lines 136-139
AllCand ==
    <<chosen>> \o cand2

EscJudge ==
    /\ pc = "esc_judge"
    /\ j_idx2' \in 0..(Len(AllCand) - 1)
    /\ chosen' = AllCand[j_idx2' + 1]
    /\ calls' = Called("judge")
    /\ pc' = "esc_verify"
    /\ UNCHANGED <<directVars, failure, esc_spent,
                   plan, si, budgetVars, totalVars, step_traces, names, cand,
                   step_cost, step_lat, j_idx, ok, verified, escVars, stats,
                   debVars, allowed, q_cost, q_lat, charged, checked,
                   run_trace>>

EscJudgeFail ==
    /\ pc = "esc_judge"
    /\ calls' = Called("judge")
    /\ pc' = "error"
    /\ failure' = "judge"
    /\ UNCHANGED <<directVars, esc_spent,
                   plan, si, budgetVars, totalVars, step_traces, stepVars,
                   escVars, stats, debVars, queryVars, run_trace>>

\* faulty variant of AfterImprove: improves again while rounds are left
AfterImproveAgain ==
    IF (~verified') /\ plan.steps[si + 1].max_rounds > 1
    THEN "esc_route" ELSE "update"

\* the improvement round is an if, not a loop: line 150 follows line 148
AfterImprove ==
    "update"

\* lines 141-148
EscVerify ==
    /\ pc = "esc_verify"
    /\ \E ok2 \in BOOLEAN :
        /\ verified' = ok2
        /\ checked' = Some([text |-> chosen.text, ok |-> ok2])
    /\ improve' = TRUE
    /\ calls' = Called("verify")
    /\ pc' = AfterImprove
    /\ UNCHANGED <<directVars, failure, esc_spent,
                   plan, si, budgetVars, totalVars, step_traces, names, cand,
                   step_cost, step_lat, j_idx, chosen, ok, names2, cand2,
                   stats, debVars, allowed, q_cost, q_lat, charged, j_idx2,
                   run_trace>>

\* faulty variant of Reward: rewards the first verification's answer
RewardOfFirstVerdict ==
    IF ok THEN 1 ELSE 0

\* line 152: reward=1.0 if verified else 0.0
Reward ==
    IF verified THEN 1 ELSE 0

\* lines 151-153
Update ==
    /\ pc = "update"
    /\ stats' = [stats EXCEPT ![chosen.model] =
                    ArmUpdate(@, Reward, chosen.cost_usd)]
    /\ calls' = Called("update")
    /\ pc' = "record"
    /\ UNCHANGED <<directVars, failure, esc_spent,
                   plan, si, budgetVars, totalVars, step_traces, stepVars,
                   escVars, debVars, queryVars, run_trace>>

\* faulty variants of StepTrace: one records the last round's workers and
\* candidates, one the first verification's answer
StepTraceOfLastRound ==
    [step_idx |-> si, skill |-> plan.steps[si + 1].skill,
     chosen_models |-> IF names2 # <<>> THEN names2 ELSE names,
     candidates |-> IF names2 # <<>> THEN <<chosen>> \o cand2 ELSE cand,
     chosen_idx |-> j_idx, verified |-> verified, improve |-> improve]

StepTraceFirstVerdict ==
    [step_idx |-> si, skill |-> plan.steps[si + 1].skill,
     chosen_models |-> names, candidates |-> cand, chosen_idx |-> j_idx,
     verified |-> ok, improve |-> improve]

\* lines 155-166, and the loop's advance
StepTrace ==
    [step_idx |-> si, skill |-> Step.skill, chosen_models |-> names,
     candidates |-> cand, chosen_idx |-> j_idx, verified |-> verified,
     improve |-> improve]

\* faulty variant of AfterRecord: returns after the first step
AfterRecordReturns ==
    "finalize"

\* faulty variant of AfterRecord: goes on only while something is left
AfterRecordWhileFunds ==
    IF si + 1 < Len(plan.steps) /\ usd_left > 0 THEN "route" ELSE "finalize"

\* line 73: the for loop takes the next step, or ends
AfterRecord ==
    IF si + 1 < Len(plan.steps) THEN "route" ELSE "finalize"

Record ==
    /\ pc = "record"
    /\ step_traces' = Append(step_traces, StepTrace)
    /\ calls' = Called("record")
    /\ si' = si + 1
    /\ pc' = AfterRecord
    \* the loop body's locals are dead from here on: the next iteration
    \* assigns each of them before it reads it
    /\ names' = <<>>
    /\ cand' = <<>>
    /\ step_cost' = 0
    /\ step_lat' = 0
    /\ j_idx' = 0
    /\ chosen' = NoCandidate
    /\ ok' = FALSE
    /\ verified' = FALSE
    /\ names2' = <<>>
    /\ cand2' = <<>>
    /\ improve' = FALSE
    /\ deb_names' = <<>>
    /\ finished' = <<>>
    /\ allowed' = TRUE
    /\ q_cost' = 0
    /\ q_lat' = 0
    /\ charged' = 0
    /\ j_idx2' = 0
    \* checked is not a local of run: it stays what the verifier last saw
    /\ UNCHANGED <<directVars, failure, esc_spent, checked,
                   plan, budgetVars, totalVars, stats, inflight, run_trace>>

\* faulty variant of FinalText: the text of the last step's first candidate
FinalTextOfFirst ==
    IF step_traces # <<>>
    THEN step_traces[Len(step_traces)].candidates[1].text
    ELSE <<>>

\* FINALIZE: lines 168-179
FinalText ==
    IF step_traces # <<>>
    THEN LET last == step_traces[Len(step_traces)]
         IN  last.candidates[last.chosen_idx + 1].text
    ELSE <<>>

Finalize ==
    /\ pc = "finalize"
    /\ run_trace' = Some([final_text |-> FinalText, steps |-> step_traces,
                          total_cost_usd |-> total_cost,
                          total_latency_s |-> total_lat])
    /\ pc' = "done"
    /\ UNCHANGED <<directVars, failure, esc_spent,
                   plan, si, budgetVars, totalVars, step_traces, stepVars,
                   escVars, stats, debVars, queryVars, calls>>

Next ==
    \/ MakePlan
    \/ MakePlanFail
    \/ Route
    \/ Execute
    \/ WorkerDone
    \/ WorkerFail
    \/ Gather
    \/ Admit
    \/ Judge
    \/ JudgeFail
    \/ Verify
    \/ VerifyFail
    \/ EscRoute
    \/ EscExecute
    \/ EscGather
    \/ EscCharge
    \/ EscJudge
    \/ EscJudgeFail
    \/ EscVerify
    \/ Update
    \/ Record
    \/ Finalize

Spec ==
    Init /\ [][Next]_vars

\* ------------------------------------------- a run whose calls all return
\* the steps of a run in which no awaited call raises
Returns ==
    \/ MakePlan
    \/ Route
    \/ Execute
    \/ WorkerDone
    \/ Gather
    \/ Admit
    \/ Judge
    \/ Verify
    \/ EscRoute
    \/ EscExecute
    \/ EscGather
    \/ EscCharge
    \/ EscJudge
    \/ EscVerify
    \/ Update
    \/ Record
    \/ Finalize

\* the steps that follow an await, or plain statements of run
Resumes ==
    \/ MakePlan
    \/ Execute
    \/ WorkerDone
    \/ Gather
    \/ Admit
    \/ Judge
    \/ Verify
    \/ EscExecute
    \/ EscGather
    \/ EscCharge
    \/ EscJudge
    \/ EscVerify
    \/ Record
    \/ Finalize

\* where run is inside a call of Router.pick_k or Router.update
InRouter ==
    pc \in {"route", "esc_route", "update"}

\* every call awaited returns, and the event loop resumes the coroutine
\* that awaits it: a step that can be taken is taken. pick_k and update are
\* synchronous and have no loop but over the workers: they return.
SpecReturns ==
    Init /\ [][Returns]_vars /\ WF_vars(Resumes) /\ []<>(~InRouter)

\* ------------------------------------------------- Budget, called directly
Amounts == (0 - 1)..MaxAmount

InitBudget ==
    /\ pc = "budget"
    /\ usd_left \in Amounts
    /\ deadline_s \in {None} \cup {Some(x) : x \in 0..MaxAmount}
    /\ Blank

BudgetAllow ==
    /\ pc = "budget"
    /\ calls.allow + calls.charge < MaxOps
    /\ \E c \in Amounts, l \in Amounts :
        /\ allowed' = Allow(usd_left, deadline_s, c, l)
        /\ q_cost' = c
        /\ q_lat' = l
    /\ calls' = Called("allow")
    /\ UNCHANGED <<directVars, failure, esc_spent,
                   pc, plan, si, budgetVars, totalVars, step_traces, stepVars,
                   escVars, stats, debVars, charged, j_idx2, checked,
                   run_trace>>

ChargeOf(c) ==
    /\ pc = "budget"
    /\ calls.allow + calls.charge < MaxOps
    /\ usd_left' = Charge(usd_left, c)
    /\ charged' = c
    /\ calls' = Called("charge")
    /\ UNCHANGED <<directVars, failure, esc_spent,
                   pc, plan, si, deadline_s, totalVars, step_traces, stepVars,
                   escVars, stats, debVars, allowed, q_cost, q_lat, j_idx2,
                   checked, run_trace>>

BudgetCharge ==
    \E c \in Amounts : ChargeOf(c)

NextBudget ==
    \/ BudgetAllow
    \/ BudgetCharge

SpecBudget ==
    InitBudget /\ [][NextBudget]_vars

\* ------------------------------------------- Router.pick_k, called directly
MaxWorkers == 2

Tiers == 0..1
SkillSets == {{}, {"math"}}
Skills == {"", "math", "code"}

\* the worker sets of n workers: the dict's keys are the ModelSpec names
WorkersOf(n) ==
    {[i \in 1..n |-> [name |-> <<"w", i>>, tier |-> f[i][1], skills |-> f[i][2]]] :
        f \in [1..n -> Tiers \X SkillSets]}

WorkerSets ==
    UNION {WorkersOf(n) : n \in 0..MaxWorkers}

\* an ArmStat never updated, and one updated once, with reward 1.0
ArmStats ==
    {ArmStat0, ArmUpdate(ArmStat0, 1, 1)}

\* Router(adapters), in a state its updates can have left it in
InitRouter ==
    /\ pc = "router"
    /\ adapters \in WorkerSets
    /\ cfg = RouterCfg0
    /\ stats \in [AdapterNames -> ArmStats]
    /\ usd_left = 0
    /\ deadline_s = None
    /\ Idle
    /\ Unseeded

RouterPickK ==
    /\ pc = "router"
    /\ picked = None
    /\ \E skill \in Skills, k \in 0..(MaxWorkers + 1),
          tier_hint \in {None} \cup {Some(t) : t \in 0..2} :
        /\ names' \in PickK(stats, skill, k, tier_hint)
        /\ picked' = Some([skill |-> skill, k |-> k, tier_hint |-> tier_hint])
    /\ calls' = Called("pick_k")
    /\ UNCHANGED <<adapters, cfg, fed, rng, hist, twin, failure, esc_spent,
                   pc, plan, si, budgetVars, totalVars, step_traces, cand, step_cost,
                   step_lat, j_idx, chosen, ok, verified, escVars, stats,
                   debVars, queryVars, run_trace>>

NextRouter ==
    RouterPickK

SpecRouter ==
    InitRouter /\ [][NextRouter]_vars

\* ------------------------------------------- Router.update, called directly
\* a Router over one worker
InitArm ==
    /\ pc = "arm"
    /\ adapters = <<WorkerModels[1]>>
    /\ cfg = RouterCfg0
    /\ stats = [n \in AdapterNames |-> ArmStat0]
    /\ usd_left = 0
    /\ deadline_s = None
    /\ Idle
    /\ Unseeded

\* Router.update(name, reward, cost): self.stats[name].update(reward, cost)
RouterUpdate ==
    /\ pc = "arm"
    /\ Len(fed) < MaxOps
    /\ \E n \in AdapterNames, reward \in 0..1, cost \in 0..MaxAmount :
        /\ stats' = [stats EXCEPT ![n] = ArmUpdate(@, reward, cost)]
        /\ fed' = Append(fed, <<n, reward, cost>>)
    /\ calls' = Called("update")
    /\ UNCHANGED <<adapters, cfg, picked, rng, hist, twin, failure,
                   esc_spent, pc, plan, si, budgetVars, totalVars, step_traces, stepVars, escVars,
                   debVars, queryVars, run_trace>>

NextArm ==
    RouterUpdate

SpecArm ==
    InitArm /\ [][NextArm]_vars

\* ------------------------------------------- two Routers of the same seed
Seeds == 0..2

\* RouterCfg(): the defaults, and a policy that never explores and weighs
\* the cost
Cfgs ==
    {RouterCfg0, [epsilon |-> <<0, 1>>, alpha_cost |-> <<1, 2>>]}

\* <<reward, cost>> of the outcomes fed back
Outcomes ==
    {<<1, 1>>, <<1, 2>>, <<0, 1>>}

\* random.Random(seed): the value its n-th call of random() returns (n from
\* 0), a function of the seed and of n alone
Random(seed, n) ==
    DrawSeq[((seed + n * (seed + 1)) % Len(DrawSeq)) + 1]

\* the calls of rng.random() one _score makes: lines 71 and 73
Drawn(s, u) ==
    IF RLess(u, Epsilon) \/ s.pulls = 0 THEN 2 ELSE 1

\* the keys sorted() computes at line 95, one _score per element in the
\* order of the list, drawing from generator g:
\* <<the scores, the <<u, r>> each had at hand, the generator after them>>
RECURSIVE ScoresFrom(_, _, _)
ScoresFrom(st, pool, g) ==
    IF pool = <<>> THEN <<<<>>, <<>>, g>>
    ELSE LET s == st[Head(pool).name]
             u == Random(g[1], g[2])
             r == Random(g[1], g[2] + 1)
             rest == ScoresFrom(st, Tail(pool), <<g[1], g[2] + Drawn(s, u)>>)
         IN  << <<Score(s, u, r)>> \o rest[1], <<<<u, r>>>> \o rest[2], rest[3] >>

\* Router.pick_k on a Router whose ArmStats are st and whose generator is g
PickKFrom(st, skill, k, tier_hint, g) ==
    LET pool == PickPool(skill, tier_hint)
        sc == ScoresFrom(st, pool, g)
    IN  [names |-> NamesOf(TakeK(SortDesc(pool, sc[1]), k)),
         pool |-> NamesOf(pool), scores |-> sc[1], draws |-> sc[2],
         rng |-> sc[3]]

\* two Routers constructed with the same adapters, cfg and seed
InitSeeded ==
    /\ pc = "seeded"
    /\ adapters = WorkerModels
    /\ cfg \in Cfgs
    /\ stats = [n \in AdapterNames |-> ArmStat0]
    /\ \E seed \in Seeds :
        /\ rng = <<seed, 0>>
        /\ twin = [rng |-> <<seed, 0>>, log |-> <<>>,
                   stats |-> [n \in AdapterNames |-> ArmStat0]]
    /\ hist = <<>>
    /\ usd_left = 0
    /\ deadline_s = None
    /\ Idle

restVars ==
    <<adapters, cfg, failure, esc_spent, pc, plan, si, budgetVars, totalVars,
      step_traces, cand, step_cost, step_lat, j_idx, chosen, ok, verified,
      escVars, debVars, queryVars, run_trace>>

\* the first Router: pick_k(skill, k, tier_hint)
SeededPickK ==
    /\ pc = "seeded"
    /\ Len(hist) < MaxOps
    /\ \E skill \in {"", "math"}, k \in 1..2, tier_hint \in {None} :
        LET res == PickKFrom(stats, skill, k, tier_hint, rng)
        IN  /\ names' = res.names
            /\ rng' = res.rng
            /\ picked' = Some([skill |-> skill, k |-> k, tier_hint |-> tier_hint])
            /\ hist' = Append(hist,
                   [op |-> "pick_k", args |-> <<skill, k, tier_hint>>,
                    names |-> res.names, pool |-> res.pool,
                    scores |-> res.scores, draws |-> res.draws,
                    stats |-> stats])
    /\ calls' = Called("pick_k")
    /\ UNCHANGED <<restVars, stats, fed, twin>>

\* the first Router: update(name, reward, cost)
SeededUpdate ==
    /\ pc = "seeded"
    /\ Len(hist) < MaxOps
    /\ \E n \in AdapterNames, o \in Outcomes :
        /\ stats' = [stats EXCEPT ![n] = ArmUpdate(@, o[1], o[2])]
        /\ fed' = Append(fed, <<n, o[1], o[2]>>)
        /\ hist' = Append(hist,
               [op |-> "update", args |-> <<n, o[1], o[2]>>,
                names |-> <<>>, pool |-> <<>>, scores |-> <<>>,
                draws |-> <<>>, stats |-> stats'])
    /\ calls' = Called("update")
    /\ UNCHANGED <<restVars, names, picked, rng, twin>>

\* faulty variant of TwinRng: one generator for every Router (the module's)
TwinRngShared ==
    rng

\* line 59: the generator the second Router draws from is its own
TwinRng ==
    twin.rng

\* the second Router is given the next call of those the first was given
TwinReplay ==
    /\ pc = "seeded"
    /\ Len(twin.log) < Len(hist)
    /\ LET c == hist[Len(twin.log) + 1]
       IN  IF c.op = "pick_k"
           THEN LET res == PickKFrom(twin.stats, c.args[1], c.args[2],
                                     c.args[3], TwinRng)
                IN  twin' = [rng |-> res.rng, stats |-> twin.stats,
                             log |-> Append(twin.log,
                                 [names |-> res.names, stats |-> twin.stats])]
           ELSE LET st == [twin.stats EXCEPT ![c.args[1]] =
                              ArmUpdate(@, c.args[2], c.args[3])]
                IN  twin' = [rng |-> twin.rng, stats |-> st,
                             log |-> Append(twin.log,
                                 [names |-> <<>>, stats |-> st])]
    /\ UNCHANGED <<restVars, names, stats, picked, fed, rng, hist, calls>>

NextSeeded ==
    \/ SeededPickK
    \/ SeededUpdate
    \/ TwinReplay

SpecSeeded ==
    InitSeeded /\ [][NextSeeded]_vars

\* ============================================================ properties
EscPhases ==
    {"esc_route", "esc_execute", "esc_await", "esc_charge", "esc_judge",
     "esc_verify"}

\* the positions that may follow position p of the run
PhaseSucc(p) ==
    CASE p = "plan" -> {"route", "finalize", "error"}
      [] p = "route" -> {"execute"}
      [] p = "execute" -> {"await"}
      [] p = "await" -> {"await", "admit", "error"}
      [] p = "admit" -> {"judge"}
      [] p = "judge" -> {"verify", "error"}
      [] p = "verify" -> {"esc_route", "update", "error"}
      [] p = "esc_route" -> {"esc_execute"}
      [] p = "esc_execute" -> {"esc_await"}
      [] p = "esc_await" -> {"esc_await", "esc_charge", "error"}
      [] p = "esc_charge" -> {"esc_judge"}
      [] p = "esc_judge" -> {"esc_verify", "error"}
      [] p = "esc_verify" -> {"update", "error"}
      [] p = "update" -> {"record"}
      [] p = "record" -> {"route", "finalize"}
      [] p = "finalize" -> {"done"}
      [] OTHER -> {}

\* C1: the phases of a step follow one another in the fixed order ROUTE,
\* EXECUTE, ADMIT, JUDGE, VERIFY, optional ESCALATE, feedback, RECORD; a step
\* is routed only when every step before it is recorded, and FINALIZE is
\* reached only when every step of the plan is recorded.
C1_PhaseOrder ==
    [][ /\ pc' \in PhaseSucc(pc)
        /\ (pc' = "route" => Len(step_traces') = si' /\ si' < Len(plan'.steps))
        /\ (pc' = "finalize" => Len(step_traces') = Len(plan'.steps)) ]_vars

C1_Witness ==
    /\ pc = "done"
    /\ Len(step_traces) = 2
    /\ step_traces[1].improve

\* what was left after the step's own charge
UsdAfterAdmit ==
    usd_left + (IF calls.charge > 1 THEN SumCost(cand2) ELSE 0)

\* C2: a step attempts an escalation round if and only if the first
\* verification rejected, the step's max_rounds is positive and what is left
\* after the step's own charge is positive; otherwise the step makes no
\* second routing, fan-out, charge, judge or verifier call.
C2_EscalationIff ==
    /\ (calls.record = 0 /\ (calls.pick_k > 1 \/ pc \in EscPhases)
            => (~ok) /\ Step.max_rounds > 0 /\ UsdAfterAdmit > 0)
    /\ (pc \in {"update", "record"} /\ calls.pick_k = 1
            => /\ ~((~ok) /\ Step.max_rounds > 0 /\ usd_left > 0)
               /\ calls.run = 1
               /\ calls.charge = 1
               /\ calls.verify = 1
               /\ calls.judge <= 1
               /\ cand2 = <<>>)

C2_Witness ==
    /\ pc = "update"
    /\ ~ok
    /\ Step.max_rounds > 0
    /\ usd_left <= 0
    /\ calls.run = 1

\* C3: a step attempts at most one escalation round, whatever max_rounds is
\* and also when the second verification rejects; the round's candidates'
\* costs are charged in full and added to total_cost, which then holds the
\* costs of both rounds.
C3_OneEscalation ==
    /\ [](/\ calls.pick_k <= 2
          /\ calls.run <= 2
          /\ calls.charge <= 2
          /\ calls.verify <= 2
          /\ calls.judge <= 2)
    /\ [](pc \in {"update", "record"} /\ si = 0 /\ calls.run = 2
            => total_cost = step_cost + SumCost(cand2))
    /\ [][pc = "esc_charge"
            => /\ usd_left' = usd_left - SumCost(cand2)
               /\ total_cost' = total_cost + SumCost(cand2)]_vars

C3_Witness ==
    /\ pc = "update"
    /\ calls.run = 2
    /\ ~verified
    /\ Step.max_rounds = 2
    /\ total_cost = step_cost + SumCost(cand2)

\* C4: ADMIT sums the candidates' costs and takes the maximum of their
\* latencies; when Budget.allow refuses them the candidate set becomes one
\* candidate of minimal cost among the fan-out results, and cost and latency
\* are those of that candidate; Budget.charge is called once, with the
\* resulting step cost, allowed or not.
C4_Admit ==
    /\ [](pc = "judge" =>
            LET fan == Gathered
                n == Len(fan)
            IN  /\ q_cost = SumCost(fan)
                /\ \A i \in 1..n : fan[i].latency_s <= q_lat
                /\ \E i \in 1..n : fan[i].latency_s = q_lat
                /\ allowed => /\ cand = fan
                              /\ step_cost = q_cost
                              /\ step_lat = q_lat
                /\ (~allowed) => /\ Len(cand) = 1
                                 /\ \E i \in 1..n : fan[i] = cand[1]
                                 /\ \A i \in 1..n :
                                        cand[1].cost_usd <= fan[i].cost_usd
                                 /\ step_cost = cand[1].cost_usd
                                 /\ step_lat = cand[1].latency_s
                /\ calls.allow = 1
                /\ calls.charge = 1
                /\ charged = step_cost)
    /\ [][pc = "admit"
            => /\ allowed' = Allow(usd_left, deadline_s, q_cost', q_lat')
               /\ usd_left' = usd_left - step_cost'
               /\ total_cost' = total_cost + step_cost'
               /\ total_lat' = total_lat + step_lat']_vars

C4_Witness ==
    /\ pc = "judge"
    /\ ~allowed
    /\ Len(Gathered) = 2
    /\ cand[1] = Gathered[2]
    /\ Gathered[1].cost_usd > Gathered[2].cost_usd

\* C5: budget_usd is a hard limit: usd_left is never negative, and the
\* total_cost_usd of a returned RunTrace does not exceed the budget.
C5_HardBudget ==
    /\ usd_left >= 0
    /\ (run_trace # None => run_trace[1].total_cost_usd <= plan.hard_budget_usd)

\* C6: Budget.allow(cost, latency) is false if and only if cost is more than
\* what is left, or a deadline is set and latency is more than the deadline;
\* it changes neither usd_left nor deadline_s.
C6_AllowIff ==
    [][pc = "budget" /\ calls'.allow = calls.allow + 1
        => /\ (allowed' = FALSE) <=>
                  (\/ q_cost' > usd_left
                   \/ (deadline_s # None /\ q_lat' > deadline_s[1]))
           /\ usd_left' = usd_left
           /\ deadline_s' = deadline_s]_vars

C6_Witness ==
    /\ pc = "budget"
    /\ calls.allow = 1
    /\ calls.charge = 0
    /\ allowed
    /\ q_cost = usd_left
    /\ deadline_s = Some(q_lat)

\* C7: Budget.charge(cost) takes exactly cost off usd_left in every state and
\* for every cost, with no floor and without an allow before it, and it is
\* never refused.
C7_ChargeExact ==
    /\ [][pc = "budget" /\ calls'.charge = calls.charge + 1
            => /\ usd_left' = usd_left - charged'
               /\ deadline_s' = deadline_s]_vars
    /\ [](pc = "budget" /\ calls.allow + calls.charge < MaxOps
            => \A c \in Amounts : ENABLED ChargeOf(c))

C7_Witness ==
    /\ pc = "budget"
    /\ calls.allow = 0
    /\ calls.charge = 1
    /\ charged > 0
    /\ usd_left < 0
    /\ usd_left + charged >= 0

\* C8: from the Budget's construction on usd_left never increases, and it
\* changes only by a charge, by the amount charged.
C8_Monotone ==
    [][pc # "plan"
        => /\ usd_left' <= usd_left
           /\ (usd_left' # usd_left
                 => /\ calls'.charge = calls.charge + 1
                    /\ usd_left' = usd_left - charged')]_vars

C8_Witness ==
    /\ pc = "done"
    /\ Len(step_traces) = 2
    /\ usd_left < plan.hard_budget_usd
    /\ usd_left < 0

\* the candidates cs are the results of the calls to ns, position by position
InOrder(cs, ns, round) ==
    /\ Len(cs) = Len(ns)
    /\ \A i \in 1..Len(ns) :
        /\ cs[i].model = ns[i]
        /\ cs[i].text = <<si, round, i>>
        /\ \E j \in 1..Len(finished) : finished[j] = <<i, cs[i]>>

\* C9: whatever the order in which the worker calls return, Debate.run
\* returns one candidate per name given, the i-th being the result of the
\* i-th name.
C9_FanOutOrder ==
    /\ (pc = "admit" => InOrder(cand, names, 1))
    /\ (pc = "esc_charge" => InOrder(cand2, names2, 2))

C9_Witness ==
    /\ pc = "admit"
    /\ Len(names) = 2
    /\ finished[1][1] = 2
    /\ cand[1].cost_usd # cand[2].cost_usd

\* C10: a fan-out starts every selected worker at once, and while one of its
\* calls is in flight the run does not go on: no Budget call, no judge or
\* verifier call, no Router.update and no StepTrace; what is consumed is the
\* complete result list.
C10_Barrier ==
    /\ [](inflight # {} => pc \in {"await", "esc_await", "error"})
    /\ [](pc \in {"admit", "esc_charge"}
            => /\ inflight = {}
               /\ Len(finished) = Len(deb_names)
               /\ Len(IF pc = "admit" THEN cand ELSE cand2) = Len(deb_names))
    /\ [][(pc \in {"execute", "esc_execute"})
            => /\ deb_names' = (IF pc = "execute" THEN names ELSE names2)
               /\ inflight' = (1..Len(deb_names'))]_vars
    /\ [][inflight # {}
            => /\ calls' = calls
               /\ UNCHANGED <<usd_left, total_cost, total_lat, stats,
                              step_traces, cand, cand2>>]_vars

C10_Witness ==
    /\ pc = "await"
    /\ Len(deb_names) = 2
    /\ Cardinality(inflight) = 1
    /\ Len(finished) = 1

\* C11: nothing is recovered or retried: when a worker call of a fan-out, a
\* judge call or a verifier call fails, the run is at its one terminal error,
\* from which nothing more happens; no RunTrace is returned, also when steps
\* are already recorded; and within one fan-out a worker call is started once:
\* calls are put in flight only where the fan-out starts, and no position
\* both returned and is in flight, or returned twice.
C11_NoRecovery ==
    /\ [](failure # "" <=> pc = "error")
    /\ [](pc = "error" => run_trace = None)
    /\ [][pc # "error"]_vars
    /\ [][inflight' \subseteq inflight \/ pc \in {"execute", "esc_execute"}]_vars
    /\ [](\A j \in 1..Len(finished) :
            /\ finished[j][1] \notin inflight
            /\ \A k \in 1..Len(finished) :
                   finished[j][1] = finished[k][1] => j = k)

C11_Witness ==
    /\ pc = "error"
    /\ failure = "worker"
    /\ Len(step_traces) = 1
    /\ run_trace = None

\* the workers that pass the tier and the skill filter
PassingOf(skill, tier_hint) ==
    {i \in 1..Len(adapters) :
        /\ (tier_hint = None \/ adapters[i].tier >= tier_hint[1])
        /\ (skill = "" \/ skill \in adapters[i].skills
              \/ adapters[i].skills = {})}

\* those that pass the filter of the call made
Passing ==
    PassingOf(picked[1].skill, picked[1].tier_hint)

\* the most identities the call made may return: max(1, k)
AtMost ==
    IF picked[1].k > 1 THEN picked[1].k ELSE 1

NoRepeat(ns) ==
    \A i \in 1..Len(ns) : \A j \in 1..Len(ns) : ns[i] = ns[j] => i = j

FirstRoundTop ==
    CHOOSE m \in {AdapterOf(names[i]).tier : i \in 1..Len(names)} :
        \A i \in 1..Len(names) : AdapterOf(names[i]).tier <= m

\* the workers above every worker of the first round that pass the step's
\* skill filter
Higher ==
    {i \in 1..Len(adapters) :
        /\ adapters[i].tier >= FirstRoundTop + 1
        /\ (Step.skill = "" \/ Step.skill \in adapters[i].skills
              \/ adapters[i].skills = {})}

RECURSIVE PullsFrom(_)
PullsFrom(i) ==
    IF i > Len(adapters) THEN 0
    ELSE stats[adapters[i].name].pulls + PullsFrom(i + 1)

\* C15: the ArmStats change only by the one Router.update of a step, made
\* when the step's last verification has answered: it updates the ArmStat of
\* the finally chosen candidate's worker with reward 1 if that verification
\* accepted and 0 otherwise and with that candidate's cost, and leaves every
\* other ArmStat as it is; pick_k changes none; the pulls of all workers
\* add up to the number of steps recorded.
C15_OneUpdate ==
    /\ [][stats' # stats
            => /\ pc = "update"
               /\ calls.update = 0
               /\ calls'.update = 1
               /\ calls.verify = calls.run
               /\ chosen' = chosen
               /\ stats'[chosen.model] =
                     ArmUpdate(stats[chosen.model],
                               IF verified THEN 1 ELSE 0, chosen.cost_usd)
               /\ stats'[chosen.model].pulls = stats[chosen.model].pulls + 1
               /\ \A n \in AdapterNames \ {chosen.model} : stats'[n] = stats[n]]_vars
    /\ [][pc = "update" => stats' # stats]_vars
    /\ [](pc = "record" => calls.update = 1)
    /\ [](PullsFrom(1) = Len(step_traces) + (IF pc = "record" THEN 1 ELSE 0))

C15_Witness ==
    /\ pc = "record"
    /\ Len(step_traces) = 1
    /\ calls.run = 2
    /\ ~ok
    /\ verified
    /\ chosen = cand2[1]
    /\ stats[chosen.model].winrate = <<1, 1>>
    /\ PullsFrom(1) = 2

\* the sum, and the largest, of the values fed in position f (2: the
\* rewards, 3: the costs) by the first k updates
RECURSIVE FedSum(_, _)
FedSum(f, k) ==
    IF k = 0 THEN 0 ELSE fed[k][f] + FedSum(f, k - 1)

RECURSIVE FedMax(_, _)
FedMax(f, k) ==
    IF k = 0 THEN 0
    ELSE IF fed[k][f] > FedMax(f, k - 1) THEN fed[k][f] ELSE FedMax(f, k - 1)

\* the mean m is the arithmetic mean of the values fed: pulls * m = sum
MeanExact(m, f) ==
    m[1] * Len(fed) = FedSum(f, Len(fed)) * m[2]

\* the mean m is within (pulls + 1) * 2^(1 - Precision) * (largest value
\* fed) of the arithmetic mean of the values fed
MeanNear(m, f) ==
    LET n == Len(fed)
    IN  Abs(m[1] * n - FedSum(f, n) * m[2]) * Pow2(Precision - 1)
            <= n * (n + 1) * FedMax(f, n) * m[2]

\* C16 as stated: after every update pulls is the number of updates made
\* and the two means are the arithmetic means of the rewards and of the costs
\* fed so far.
C16_ExactMean ==
    pc = "arm"
        => \A n \in AdapterNames :
              /\ stats[n].pulls = Len(fed)
              /\ MeanExact(stats[n].winrate, 2)
              /\ MeanExact(stats[n].cost, 3)

\* C16, amended: pulls is the number of updates made, one more with each;
\* the two means are the arithmetic means of the rewards and of the costs fed
\* so far up to the rounding of float arithmetic: exactly after the first
\* update, and from then on within (pulls + 1) units in the last place of
\* the largest value fed.
C16_RunningMean ==
    /\ [](pc = "arm"
            => \A n \in AdapterNames :
                  /\ stats[n].pulls = Len(fed)
                  /\ MeanNear(stats[n].winrate, 2)
                  /\ MeanNear(stats[n].cost, 3)
                  /\ Len(fed) = 1 => /\ MeanExact(stats[n].winrate, 2)
                                     /\ MeanExact(stats[n].cost, 3))
    /\ [][pc = "arm"
            => \A n \in AdapterNames : stats'[n].pulls = stats[n].pulls + 1]_vars

C16_Witness ==
    /\ pc = "arm"
    /\ Len(fed) = 3
    /\ \E n \in AdapterNames :
          /\ stats[n].pulls = 3
          /\ ~MeanExact(stats[n].winrate, 2)
          /\ MeanNear(stats[n].winrate, 2)
          /\ MeanExact(stats[n].cost, 3)
          /\ stats[n].cost # <<0, 1>>

\* C17: the chosen_idx of every StepTrace appended is an index of its
\* candidates list, whether admission trimmed the candidates or not and
\* whether an improvement round ran or not (every judge call returning an
\* index of the list it was given).
C17_ChosenIndex ==
    /\ \A i \in 1..Len(step_traces) :
          /\ 0 <= step_traces[i].chosen_idx
          /\ step_traces[i].chosen_idx < Len(step_traces[i].candidates)
    /\ (run_trace # None
          => \A i \in 1..Len(run_trace[1].steps) :
                /\ 0 <= run_trace[1].steps[i].chosen_idx
                /\ run_trace[1].steps[i].chosen_idx
                       < Len(run_trace[1].steps[i].candidates))

C17_Witness ==
    /\ pc = "done"
    /\ \E i \in 1..Len(step_traces) :
          /\ Len(step_traces[i].chosen_models) = 2
          /\ Len(step_traces[i].candidates) = 1
          /\ step_traces[i].improve

\* the candidates of StepTrace t are results of its step's first fan-out, in
\* the order of that fan-out, each by the worker selected at its position
FirstRound(t) ==
    \A j \in 1..Len(t.candidates) :
        LET c == t.candidates[j]
        IN  /\ c.text[1] = t.step_idx
            /\ c.text[2] = 1
            /\ c.text[3] \in 1..Len(t.chosen_models)
            /\ c.model = t.chosen_models[c.text[3]]
            /\ \A l \in 1..(j - 1) : t.candidates[l].text[3] < c.text[3]

C19_StaleIndex ==
    /\ [][j_idx' # j_idx => pc \in {"judge", "record"}]_vars
    /\ [][pc = "record"
            => LET t == step_traces'[Len(step_traces')]
               IN  /\ t.chosen_idx = j_idx
                   /\ t.verified = verified
                   /\ t.candidates[t.chosen_idx + 1].text[2] = 1
                   /\ (chosen.text[2] = 2
                         => /\ t.candidates[t.chosen_idx + 1] # chosen
                            /\ \A j \in 1..Len(t.candidates) :
                                  t.candidates[j] # chosen
                            /\ ~ok
                            /\ stats[chosen.model].pulls > 0)]_vars

C19_Witness ==
    /\ pc = "done"
    /\ Len(step_traces) = 1
    /\ step_traces[1].improve
    /\ step_traces[1].verified
    /\ step_traces[1].chosen_idx = 1
    /\ stats[step_traces[1].candidates[2].model].pulls = 0

RECURSIVE TraceCost(_)
TraceCost(k) ==
    IF k = 0 THEN 0
    ELSE SumCost(step_traces[k].candidates) + TraceCost(k - 1)

RECURSIVE TraceLatency(_)
TraceLatency(k) ==
    IF k = 0 THEN 0
    ELSE MaxLatency(step_traces[k].candidates) + TraceLatency(k - 1)

\* C20: at FINALIZE total_cost is the sum, over the steps, of the cost of the
\* candidates admitted, plus the costs of all candidates of the improvement
\* rounds; total_latency is the sum, over the steps, of the largest latency
\* among the candidates admitted, plus the largest latency of each
\* improvement round; the RunTrace returned carries these.
C20_Totals ==
    /\ (pc \in {"finalize", "done"}
          => /\ total_cost = TraceCost(Len(step_traces)) + esc_spent[1]
             /\ total_lat = TraceLatency(Len(step_traces)) + esc_spent[2])
    /\ (run_trace # None
          => /\ run_trace[1].total_cost_usd = total_cost
             /\ run_trace[1].total_latency_s = total_lat
             /\ run_trace[1].steps = step_traces)

C20_Witness ==
    /\ pc = "done"
    /\ Len(step_traces) = 1
    /\ Len(step_traces[1].chosen_models) = 2
    /\ Len(step_traces[1].candidates) = 1
    /\ esc_spent = <<2, 2>>
    /\ run_trace[1].total_cost_usd = 3
    /\ run_trace[1].total_latency_s = 3

C22_JudgeIff ==
    /\ (pc \in {"admit", "judge"} => calls.judge = 0)
    /\ (pc = "verify"
          => /\ (calls.judge = 1 <=> Len(cand) # 1)
             /\ (calls.judge = 0 <=> Len(cand) = 1)
             /\ (Len(cand) = 1 => j_idx = 0 /\ chosen = cand[1])
             /\ (Len(cand) # 1 => chosen = cand[j_idx + 1]))
    /\ (pc = "error" /\ failure = "judge" /\ calls.run = 1
          => calls.judge = 1 /\ Len(cand) # 1)

C22_Witness ==
    /\ pc = "verify"
    /\ Len(names) = 2
    /\ ~allowed
    /\ Len(cand) = 1
    /\ cand[1] = Gathered[2]
    /\ calls.judge = 0
    /\ j_idx = 0

C24_StaticDeadline ==
    /\ deadline_s = plan.hard_latency_s
    /\ (pc = "judge"
          => /\ q_lat = MaxLatency(Gathered)
             /\ (allowed <=> /\ q_cost <= usd_left + charged
                             /\ (deadline_s = None \/ q_lat <= deadline_s[1])))

C24_Witness ==
    /\ pc = "judge"
    /\ si = 1
    /\ deadline_s = Some(1)
    /\ allowed
    /\ q_lat = 1
    /\ total_lat = 2
    /\ Len(step_traces) = 1

\* the candidate the first round chose
FirstChosen ==
    cand[j_idx + 1]

\* an improvement round has been judged in the current step
ReJudged ==
    pc = "esc_verify" \/ (pc \in {"update", "record"} /\ calls.run = 2)

\* C25: the improvement round's judge is given the candidate chosen in the
\* first round, at index 0, followed by the round's candidates; the
\* candidate finally chosen is the one at the index it returns; the second
\* verifier call is given that candidate's text and its answer is the step's
\* verified, also when that candidate is the one the first round chose and
\* the first verification rejected; Router.update is made for that
\* candidate's worker, with that answer and that candidate's cost.
C25_ReJudge ==
    /\ [](pc = "esc_judge"
            => /\ chosen = FirstChosen
               /\ Len(AllCand) = 1 + Len(cand2)
               /\ AllCand[1] = FirstChosen
               /\ \A i \in 1..Len(cand2) : AllCand[i + 1] = cand2[i])
    /\ [](ReJudged
            => /\ 0 <= j_idx2
               /\ j_idx2 <= Len(cand2)
               /\ (j_idx2 = 0 => chosen = FirstChosen)
               /\ (j_idx2 > 0 => chosen = cand2[j_idx2])
               /\ ~ok)
    /\ [](pc \in {"update", "record"} /\ calls.run = 2
            => /\ calls.verify = 2
               /\ checked[1].text = chosen.text
               /\ verified = checked[1].ok)
    /\ [][pc = "update" /\ calls.run = 2
            => stats' = [stats EXCEPT ![chosen.model] =
                            ArmUpdate(@, IF checked[1].ok THEN 1 ELSE 0,
                                      chosen.cost_usd)]]_vars

C25_Witness ==
    /\ pc = "record"
    /\ calls.run = 2
    /\ Len(cand) = 2
    /\ j_idx = 1
    /\ j_idx2 = 0
    /\ chosen = cand[2]
    /\ ~ok
    /\ verified
    /\ chosen.model # cand2[1].model
    /\ stats[chosen.model].winrate = <<1, 1>>
    /\ stats[cand2[1].model].pulls = 0

\* the last call made on the first Router
LastCall ==
    hist[Len(hist)]

\* winrate - alpha_cost * cost of the worker named n
Utility(n) ==
    RSub(stats[n].winrate, RMul(cfg.alpha_cost, stats[n].cost))

\* C26: in a pick_k, a worker never pulled is scored by a fresh value of the
\* generator whatever its exploration draw was, and a worker pulled before
\* whose exploration draw is not below epsilon is scored
\* winrate - alpha_cost * cost; with epsilon = 0 and every worker of the pool
\* pulled before, pick_k returns the max(1, k) workers of the pool (all of
\* them when they are fewer) of highest winrate - alpha_cost * cost, highest
\* first.
C26_Scores ==
    pc = "seeded" /\ hist # <<>> /\ LastCall.op = "pick_k"
        => LET h == LastCall
               n == Len(h.pool)
           IN  /\ Len(h.scores) = n
               /\ \A i \in 1..n :
                     /\ stats[h.pool[i]].pulls = 0
                          => h.scores[i] = h.draws[i][2]
                     /\ (stats[h.pool[i]].pulls > 0
                           /\ ~RLess(h.draws[i][1], cfg.epsilon))
                          => h.scores[i] = Utility(h.pool[i])
               /\ (cfg.epsilon = <<0, 1>>
                     /\ \A i \in 1..n : stats[h.pool[i]].pulls > 0)
                    => /\ Len(names) = (IF Max2(1, h.args[2]) < n
                                        THEN Max2(1, h.args[2]) ELSE n)
                       /\ NoRepeat(names)
                       /\ \A i \in 1..Len(names) :
                             \E j \in 1..n : h.pool[j] = names[i]
                       /\ \A i \in 1..Len(names) : \A j \in 1..Len(names) :
                             i < j => ~RLess(Utility(names[i]), Utility(names[j]))
                       /\ \A j \in 1..n :
                             (\A i \in 1..Len(names) : names[i] # h.pool[j])
                                => ~RLess(Utility(names[Len(names)]),
                                          Utility(h.pool[j]))

C26_Witness ==
    /\ pc = "seeded"
    /\ cfg.epsilon = <<0, 1>>
    /\ Len(hist) = 3
    /\ LastCall.op = "pick_k"
    /\ LastCall.pool = <<"gpt-4o", "gpt-4o-mini">>
    /\ names = <<"gpt-4o-mini">>
    /\ stats["gpt-4o"].pulls = 1
    /\ stats["gpt-4o-mini"].pulls = 1
    /\ stats["gpt-4o"].winrate = stats["gpt-4o-mini"].winrate
    /\ RLess(stats["gpt-4o-mini"].cost, stats["gpt-4o"].cost)

\* C27: from the construction of the Budget on, so after every RECORD and
\* at FINALIZE, total_cost and usd_left add up to the plan's
\* hard_budget_usd: what ADMIT and the improvement round add to total_cost
\* they charge, and nothing else moves either; the candidates trimmed away
\* by ADMIT are in neither, and total_cost is the cost of the candidates
\* kept and of the improvement rounds.
C27_Conservation ==
    /\ total_cost + usd_left = plan.hard_budget_usd
    /\ (run_trace # None
          => run_trace[1].total_cost_usd + usd_left = plan.hard_budget_usd)
    /\ (pc = "judge"
          => /\ charged = SumCost(cand)
             /\ total_cost = TraceCost(Len(step_traces)) + esc_spent[1]
                                + SumCost(cand)
             /\ (~allowed => /\ Len(cand) = 1
                             /\ SumCost(cand) <= q_cost
                             /\ q_cost = SumCost(Gathered)))
    /\ (pc \in {"route", "finalize", "done"}
          => total_cost = TraceCost(Len(step_traces)) + esc_spent[1])

C27_Witness ==
    /\ pc = "done"
    /\ Len(step_traces) = 1
    /\ plan.hard_budget_usd = 1
    /\ Len(step_traces[1].chosen_models) = 2
    /\ Len(step_traces[1].candidates) = 1
    /\ step_traces[1].candidates[1].cost_usd = 2
    /\ total_cost = 2
    /\ usd_left = 0 - 1

C29_SelfConsistent ==
    /\ [](pc \in {"update", "record"} /\ ~improve
            => /\ calls.verify = 1
               /\ chosen = cand[j_idx + 1]
               /\ checked = Some([text |-> chosen.text, ok |-> verified]))
    /\ [][(pc = "update" /\ ~improve)
            => stats' = [stats EXCEPT ![cand[j_idx + 1].model] =
                            ArmUpdate(@, IF checked[1].ok THEN 1 ELSE 0,
                                      cand[j_idx + 1].cost_usd)]]_vars
    /\ [][(pc = "record" /\ ~improve)
            => LET t == step_traces'[Len(step_traces')]
               IN  /\ Len(step_traces') = Len(step_traces) + 1
                   /\ ~t.improve
                   /\ t.candidates[t.chosen_idx + 1] = chosen
                   /\ t.candidates[t.chosen_idx + 1].text = checked[1].text
                   /\ t.verified = checked[1].ok]_vars
    /\ [](pc = "done" /\ run_trace[1].steps # <<>>
            => LET t == run_trace[1].steps[Len(run_trace[1].steps)]
               IN  ~t.improve
                     => /\ run_trace[1].final_text = checked[1].text
                        /\ t.verified = checked[1].ok)

C29_Witness ==
    /\ pc = "done"
    /\ Len(run_trace[1].steps) = 1
    /\ ~run_trace[1].steps[1].improve
    /\ Len(run_trace[1].steps[1].candidates) = 2
    /\ run_trace[1].steps[1].chosen_idx = 1
    /\ ~run_trace[1].steps[1].verified
    /\ run_trace[1].steps[1].candidates[1].text
         # run_trace[1].steps[1].candidates[2].text
    /\ run_trace[1].final_text = run_trace[1].steps[1].candidates[2].text
    /\ stats[run_trace[1].steps[1].candidates[2].model].pulls = 1
    /\ stats[run_trace[1].steps[1].candidates[1].model].pulls = 0

====
